---- MODULE Spec2Model ----
(***************************************************************************)
(* A model of the wordle solver: the letter Counter (src/src/counter.rs),  *)
(* get_feedback, reduce_dict, the two-stage guess selection and the solve  *)
(* session run_solve_repl (src/src/main.rs), and the entropy heuristics    *)
(* (src/src/letter_dist.rs).                                               *)
(*                                                                         *)
(* A letter is its u8 code (65 = 'A').  A Word is a sequence of letters, a *)
(* Feedback a sequence of "Grey" / "Yellow" / "Green".  A Counter is the   *)
(* BTreeMap<u8, u8> it wraps: a function from the keys present to counts,  *)
(* so that a key present with count 0 differs from an absent key.          *)
(***************************************************************************)
EXTENDS Integers, Sequences, FiniteSets, TLC

VARIABLES
    \* get_feedback / reduce_dict applied to drawn inputs
    c_dict, c_secret, c_guess, c_fb, c_result, c_pc,
    \* two Counters driven through the Counter API
    ctrA, ctrB, ctrD,
    \* the solve session (run_solve_repl)
    full_dict, init, avail_solutions, guess_hist, line_buf, best_guess,
    guess, alt_solutions, pc,
    \* the recommendation computed twice on the same inputs
    r_dict, r_pool, r_n, r_cands, r_first, r_second

coreVars == <<c_dict, c_secret, c_guess, c_fb, c_result, c_pc>>
ctrVars  == <<ctrA, ctrB, ctrD>>
sessVars == <<full_dict, init, avail_solutions, guess_hist, line_buf,
              best_guess, guess, alt_solutions, pc>>
recVars  == <<r_dict, r_pool, r_n, r_cands, r_first, r_second>>
vars     == <<coreVars, ctrVars, sessVars, recVars>>

---------------------------------------------------------------------------
(* Bounds of the model *)

\* Length M of the enumerated words (Word<const M: usize>)
WordLen == 3
\* Largest count a Counter entry is driven to in the Counter specification
MaxCount == 2
\* Largest number of words of the solution dictionary of a session
MaxSol == 3
\* Largest number of (guess, feedback) pairs of a session
MaxRounds == 2
\* Largest top-N parameter drawn for filter_top_heur
MaxN == 2

\* The letters words are enumerated over: 'A', 'B', 'C'
Letters == {65, 66, 67}

\* u8 arithmetic is modulo 2^8
U8 == 256

None == "None"

---------------------------------------------------------------------------
(* Sequence helpers *)

Range(s) == {s[i] : i \in 1..Len(s)}

Min(a, b) == IF a <= b THEN a ELSE b

RECURSIVE SetToSortedSeq(_)
\* The elements of a finite set of integers in ascending order (BTreeMap and
\* BTreeSet iterate their keys in ascending order)
SetToSortedSeq(S) ==
    IF S = {} THEN <<>>
    ELSE LET m == CHOOSE x \in S : \A y \in S : x <= y
         IN  <<m>> \o SetToSortedSeq(S \ {m})

RECURSIVE SumSeq(_)
SumSeq(s) == IF s = <<>> THEN 0 ELSE Head(s) + SumSeq(Tail(s))

Reverse(s) == [i \in 1..Len(s) |-> s[Len(s) + 1 - i]]

RECURSIVE WordsOfLen(_)
\* All words of length n over Letters, in lexicographic order
WordsOfLen(n) ==
    IF n = 0 THEN << <<>> >>
    ELSE LET shorter == WordsOfLen(n - 1)
             ls == SetToSortedSeq(Letters)
             RECURSIVE Over(_)
             Over(i) == IF i > Len(ls) THEN <<>>
                        ELSE [j \in 1..Len(shorter) |-> <<ls[i]>> \o shorter[j]]
                             \o Over(i + 1)
         IN  Over(1)

WordsSeq == WordsOfLen(WordLen)
Words == Range(WordsSeq)

---------------------------------------------------------------------------
(* counter.rs: Counter *)

CounterNew == [k \in {} |-> 0]

\* Counter::insert (called add in main.rs and letter_dist.rs)
Insert(c, k) ==
    IF k \in DOMAIN c
    THEN [c EXCEPT ![k] = (@ + 1) % U8]
    ELSE [x \in DOMAIN c \cup {k} |-> IF x = k THEN 1 ELSE c[x]]

RECURSIVE FromIter(_)
\* impl FromIterator<u8> for Counter
FromIter(w) ==
    IF w = <<>> THEN CounterNew
    ELSE Insert(FromIter(SubSeq(w, 1, Len(w) - 1)), w[Len(w)])

ContainsKey(c, k) == k \in DOMAIN c

Get(c, k) == IF k \in DOMAIN c THEN c[k] ELSE 0

Keys(c) == SetToSortedSeq(DOMAIN c)

\* self.inner.values().sum::<u8>()
SumValues(c) == SumSeq([i \in 1..Len(Keys(c)) |-> c[Keys(c)[i]]]) % U8

IsEmpty_NoKeys(c) == DOMAIN c = {}

IsEmpty(c) == SumValues(c) = 0

\* A pop_one that refuses to take the last occurrence
PopOne_KeepLast(c, k) ==
    IF k \notin DOMAIN c THEN [ok |-> FALSE, ctr |-> c]
    ELSE IF c[k] <= 1 THEN [ok |-> FALSE, ctr |-> c]
    ELSE [ok |-> TRUE, ctr |-> [c EXCEPT ![k] = @ - 1]]

\* pop_one: the Result and the counter after the call
PopOne(c, k) ==
    IF k \notin DOMAIN c THEN [ok |-> FALSE, ctr |-> c]
    ELSE IF c[k] < 1 THEN [ok |-> FALSE, ctr |-> c]
    ELSE [ok |-> TRUE, ctr |-> [c EXCEPT ![k] = @ - 1]]

BitAnd_Max(a, b) ==
    [k \in DOMAIN a \cap DOMAIN b |-> IF a[k] >= b[k] THEN a[k] ELSE b[k]]

\* impl ops::BitAnd for Counter
BitAnd(a, b) ==
    [k \in DOMAIN a \cap DOMAIN b |-> Min(a[k], b[k])]

\* impl ops::Sub for &Counter: checked_sub drops a key whose difference would
\* be negative and keeps one whose difference is 0
Sub(a, b) ==
    [k \in {x \in DOMAIN a : x \notin DOMAIN b \/ a[x] >= b[x]} |->
        IF k \in DOMAIN b THEN a[k] - b[k] ELSE a[k]]

---------------------------------------------------------------------------
(* main.rs: read_feedback, get_feedback, reduce_dict *)

LettFb == {"Grey", "Yellow", "Green"}

\* The match of read_feedback on one character: the LettFb, or None for Err
ReadChar(ch) ==
    CASE ch = "-" -> "Grey"
      [] ch = "+" -> "Yellow"
      [] ch = "*" -> "Green"
      [] OTHER -> None

\* read_feedback::<M>(s): an error on a character other than - + *, and on a
\* length other than M (the try_into of the slice)
ReadFeedback(s, M) ==
    IF \E i \in 1..Len(s) : ReadChar(s[i]) = None
    THEN [ok |-> FALSE, fb |-> <<>>]
    ELSE IF Len(s) # M
    THEN [ok |-> FALSE, fb |-> <<>>]
    ELSE [ok |-> TRUE, fb |-> [i \in 1..Len(s) |-> ReadChar(s[i])]]

RECURSIVE GreenPass_NoMark(_, _, _, _)
GreenPass_NoMark(secret, g, i, st) ==
    IF i > Len(g) \/ st.panicked THEN st
    ELSE IF secret[i] = g[i]
    THEN LET p == PopOne(st.ctr, secret[i])
         IN  GreenPass_NoMark(secret, g, i + 1,
                       [result |-> st.result, ctr |-> p.ctr, panicked |-> ~p.ok])
    ELSE GreenPass_NoMark(secret, g, i + 1, st)

RECURSIVE GreenPass(_, _, _, _)
\* The first loop of get_feedback from position i on: st holds the result, the
\* common counter and whether the expect on pop_one has panicked
GreenPass(secret, g, i, st) ==
    IF i > Len(g) \/ st.panicked THEN st
    ELSE IF secret[i] = g[i]
    THEN LET p == PopOne(st.ctr, secret[i])
         IN  GreenPass(secret, g, i + 1,
                       [result |-> [st.result EXCEPT ![i] = "Green"],
                        ctr |-> p.ctr,
                        panicked |-> ~p.ok])
    ELSE GreenPass(secret, g, i + 1, st)

\* idxs: the positions of the guess holding lett and not Green, ascending
YellowIdxs(g, result, lett) ==
    SetToSortedSeq({i \in 1..Len(g) : g[i] = lett /\ result[i] # "Green"})

Take_Last(s, n) == SubSeq(s, Len(s) - Min(n, Len(s)) + 1, Len(s))

\* Iterator::take(n)
Take(s, n) == SubSeq(s, 1, Min(n, Len(s)))

RECURSIVE YellowPass(_, _, _, _)
\* The second loop of get_feedback over the entries of common_ctr from the
\* k-th key on, in key order
YellowPass(g, ctr, k, result) ==
    IF k > Len(Keys(ctr)) THEN result
    ELSE LET lett == Keys(ctr)[k]
             marked == Range(Take(YellowIdxs(g, result, lett), ctr[lett]))
         IN  YellowPass(g, ctr, k + 1,
                        [i \in 1..Len(result) |->
                            IF i \in marked THEN "Yellow" ELSE result[i]])

\* get_feedback with its panic: [result, panicked]
GetFeedbackRun(secret, g) ==
    LET common == BitAnd(FromIter(secret), FromIter(g))
        st0 == [result |-> [i \in 1..Len(g) |-> "Grey"],
                ctr |-> common, panicked |-> FALSE]
        st1 == GreenPass(secret, g, 1, st0)
    IN  IF st1.panicked THEN [result |-> st1.result, panicked |-> TRUE]
        ELSE [result |-> YellowPass(g, st1.ctr, 1, st1.result),
              panicked |-> FALSE]

get_feedback(secret, g) == GetFeedbackRun(secret, g).result

\* correct_lett_ctr: one count per Yellow and per Green position
CorrectLettCtr(g, fb) ==
    FromIter(SelectSeq([i \in 1..Len(g) |->
                           IF fb[i] = "Grey" THEN 0 ELSE g[i]],
                       LAMBDA x : x # 0))

\* exact_letts
ExactLetts(g, fb) == {<<i, g[i]>> : i \in {j \in 1..Len(g) : fb[j] = "Green"}}

\* marked_wrong_letts
MarkedWrongLetts(g, fb) == {g[i] : i \in {j \in 1..Len(g) : fb[j] = "Grey"}}

\* wrong_locs
WrongLocs(g, fb) == {<<i, g[i]>> : i \in {j \in 1..Len(g) : fb[j] = "Yellow"}}

WrongLetts_Raw(g, fb) == MarkedWrongLetts(g, fb)

\* wrong_letts: the letters marked Grey and not counted as correct
WrongLetts(g, fb) ==
    {l \in MarkedWrongLetts(g, fb) : ~ContainsKey(CorrectLettCtr(g, fb), l)}

\* No upper bounds at all: the limits taken to be obsolete
LettLimits_None(g, fb) == [k \in {} |-> 0]

\* lett_limits: the keys and their upper bounds
LettLimits(g, fb) ==
    LET ctr == CorrectLettCtr(g, fb)
    IN  [k \in {x \in DOMAIN ctr : x \in MarkedWrongLetts(g, fb)} |-> ctr[k]]

\* The closure of the filter of reduce_dict
Keeps(w, g, fb) ==
    LET w_ctr == FromIter(w)
        limits == LettLimits(g, fb)
    IN  /\ \A e \in ExactLetts(g, fb) : w[e[1]] = e[2]
        /\ ~\E k \in DOMAIN w_ctr : k \in WrongLetts(g, fb)
        /\ IsEmpty(Sub(CorrectLettCtr(g, fb), w_ctr))
        /\ ~\E e \in WrongLocs(g, fb) : w[e[1]] = e[2]
        /\ \A l \in DOMAIN limits : Get(w_ctr, l) <= limits[l]

\* reduce_dict: the words of dict the filter keeps, in dict order
reduce_dict(dict, g, fb) == SelectSeq(dict, LAMBDA w : Keeps(w, g, fb))

---------------------------------------------------------------------------
(* letter_dist.rs: the entropy heuristics.  The f32 probabilities of a       *)
(* dictionary of n words are multiples of 1/n; an entropy is held as the     *)
(* integer n * 10^6 * entropy, with ln taken from a table that is exact on   *)
(* products (ln 4 = 2 ln 2), so that scores equal as real numbers are equal  *)
(* here and compare as they do in the code.                                  *)

\* 10^6 * ln(k) for k = 1..10
LnTable == <<0, 693147, 1098612, 1386294, 1609438, 1791759, 1945910,
             2079441, 2197224, 2302585>>

\* n * 10^6 * xlnx(k / n); xlnx(0) = 0
XlnxN(k, n) == IF k = 0 THEN 0 ELSE k * (LnTable[k] - LnTable[n])

RECURSIVE SumOver(_, _)
\* The sum of f[x] over the keys x of the sequence ks
SumOver(f, ks) == IF ks = <<>> THEN 0 ELSE f[Head(ks)] + SumOver(f, Tail(ks))

\* LettCountDist::new: for each letter of the dictionary, the number of words
\* holding it c times, for each c that occurs, and for c = 0 the rest
LettCountDistNew(dict) ==
    LET letts == UNION {Range(dict[i]) : i \in 1..Len(dict)}
        seen(l) == {Get(FromIter(dict[i]), l) : i \in 1..Len(dict)} \ {0}
        words(l, c) == Cardinality({i \in 1..Len(dict) :
                                      Get(FromIter(dict[i]), l) = c})
    IN  [l \in letts |->
            [c \in seen(l) \cup {0} |->
                IF c = 0
                THEN Len(dict) - SumSeq([k \in 1..Len(SetToSortedSeq(seen(l))) |->
                                           words(l, SetToSortedSeq(seen(l))[k])])
                ELSE words(l, c)]]

\* LettCountDist::entropy, times n * 10^6
CountEntropy(dist, n, word) ==
    LET word_ctr == FromIter(word)
        term(l) ==
            LET below == {c \in DOMAIN dist[l] : c < Get(word_ctr, l)}
                ps == SetToSortedSeq(below)
                rem == n - SumOver(dist[l], ps)
            IN  SumSeq([k \in 1..Len(ps) |-> XlnxN(dist[l][ps[k]], n)])
                    + XlnxN(rem, n)
        ls == SetToSortedSeq(DOMAIN dist)
    IN  0 - SumSeq([k \in 1..Len(ls) |-> term(ls[k])])

\* LettLocDist::new: one Counter per position; normalized() divides by the
\* sum of its values
LettLocDistNew(dict, M) ==
    [pos \in 1..M |-> FromIter([i \in 1..Len(dict) |-> dict[i][pos]])]

\* LettLocDist::entropy, times n * 10^6
LocEntropy(counters, word) ==
    0 - SumSeq([pos \in 1..Len(word) |->
                  LET total == SumValues(counters[pos])
                      k == Get(counters[pos], word[pos])
                  IN  XlnxN(k, total) + XlnxN(total - k, total)])

\* total_ents: the summed entropies of the words of pool against dict
TotalEnts(dict, pool) ==
    [i \in 1..Len(pool) |->
        CountEntropy(LettCountDistNew(dict), Len(dict), pool[i])
            + LocEntropy(LettLocDistNew(dict, Len(pool[i])), pool[i])]

---------------------------------------------------------------------------
(* main.rs: the expectation search and the two-stage selection *)

\* get_expect_remain_after: the f32 score as the fraction num / den
GetExpectRemainAfter(dict, g) ==
    LET n_remain == [i \in 1..Len(dict) |->
                        Len(reduce_dict(dict, g, get_feedback(dict[i], g)))]
        sum_remain == SumSeq(n_remain)
    IN  [num |-> IF g \in Range(dict) THEN sum_remain - 1 ELSE sum_remain,
         den |-> Len(dict)]

RECURSIVE FirstMinFrom(_, _, _)
\* Iterator::min_by on scores of one denominator: the first of the minima
FirstMinFrom(nums, i, best) ==
    IF i > Len(nums) THEN best
    ELSE FirstMinFrom(nums, i + 1, IF nums[i] < nums[best] THEN i ELSE best)

\* get_best_expect(dict, pool): (best_guess, exp_left), the scores given by
\* the function exp of the candidates
GetBestExpectOf(exp, pool) ==
    LET best == FirstMinFrom([i \in 1..Len(pool) |-> exp[pool[i]].num], 2, 1)
    IN  [word |-> pool[best], num |-> exp[pool[best]].num,
         den |-> exp[pool[best]].den]

\* A threshold taken one entry too low in the ascending scores
EntCutoff_Below(ents, n) ==
    LET sorted == SortSeq(ents, LAMBDA a, b : a < b)
        idx_max == IF n >= Len(sorted) THEN 0 ELSE Len(sorted) - n - 1
    IN  sorted[idx_max + 1]

\* The threshold of filter_top_heur: the entry of the ascending scores at
\* idx_max, which is 0 when n exceeds their number
EntCutoff(ents, n) ==
    LET sorted == SortSeq(ents, LAMBDA a, b : a < b)
        idx_max == IF n > Len(sorted) THEN 0 ELSE Len(sorted) - n
    IN  sorted[idx_max + 1]

\* filter_top_heur(dict, pool, n): the HashSet of the words that pass
FilterTopHeur(dict, pool, n) ==
    LET total_ents == TotalEnts(dict, pool)
        total_ents_dict == TotalEnts(dict, dict)
        ent_cutoff == EntCutoff(total_ents, n)
        ent_cutoff_dict == EntCutoff(total_ents_dict, n)
    IN  {pool[i] : i \in {j \in 1..Len(pool) : total_ents[j] >= ent_cutoff}}
        \cup {dict[i] : i \in {j \in 1..Len(dict) :
                                  total_ents_dict[j] >= ent_cutoff_dict}}

RECURSIVE Orders(_)
\* The orders in which into_iter may enumerate a HashSet: Rust's HashSet is
\* seeded at random per instance, so any order is possible
Orders(S) ==
    IF S = {} THEN {<<>>}
    ELSE UNION {{<<x>> \o o : o \in Orders(S \ {x})} : x \in S}

\* filter_top_heur followed by get_best_expect: every (guess, score) the
\* enumeration order of the HashSet allows.  The candidates and their scores
\* are bound once (exp_lefts is computed once per call), not once per order.
Recommendations(dict, pool, n) ==
    UNION {UNION {{GetBestExpectOf(exp, o) : o \in Orders(cands)} :
                      exp \in {[w \in cands |-> GetExpectRemainAfter(dict, w)]}} :
              cands \in {FilterTopHeur(dict, pool, n)}}

---------------------------------------------------------------------------
(* Idle values of the variables a specification does not use *)

IdleCore == /\ c_dict = <<>> /\ c_secret = <<>> /\ c_guess = <<>>
            /\ c_fb = <<>> /\ c_result = <<>> /\ c_pc = "idle"
NoDiff   == [done |-> FALSE, diff |-> CounterNew, empty |-> FALSE]
IdleCtr  == /\ ctrA = CounterNew /\ ctrB = CounterNew /\ ctrD = NoDiff
NoInit   == [some |-> FALSE, text |-> <<>>]
NoRec    == [done |-> FALSE, word |-> <<>>, num |-> 0, den |-> 1]
IdleSess == /\ full_dict = <<>> /\ init = NoInit /\ avail_solutions = <<>>
            /\ guess_hist = <<>> /\ line_buf = <<>> /\ best_guess = NoRec
            /\ guess = <<>> /\ alt_solutions = <<>> /\ pc = "idle"
IdleRec  == /\ r_dict = <<>> /\ r_pool = <<>> /\ r_n = 0 /\ r_cands = {}
            /\ r_first = NoRec /\ r_second = NoRec

---------------------------------------------------------------------------
(* get_feedback and reduce_dict on drawn inputs *)

ERROR == <<69, 82, 82, 79, 82>>
ARGOT == <<65, 82, 71, 79, 84>>
WINCE == <<87, 73, 78, 67, 69>>
SLATE == <<83, 76, 65, 84, 69>>
BELOW == <<66, 69, 76, 79, 87>>
BLOWN == <<66, 76, 79, 87, 78>>
LLAMA == <<76, 76, 65, 77, 65>>

\* The dictionaries reduce_dict is applied to: every enumerated word, and a
\* dictionary out of order that holds some words twice
Pools == {WordsSeq, Reverse(WordsSeq) \o SubSeq(WordsSeq, 1, WordLen)}

\* The scenarios of run_test and of the documentation, on five-letter words
Scenarios ==
    {<<<<ERROR, ARGOT, WINCE, SLATE>>, ERROR, ARGOT>>,
     <<<<ERROR, ARGOT, WINCE, SLATE>>, WINCE, SLATE>>,
     <<<<BELOW, BLOWN, LLAMA>>, BELOW, LLAMA>>}

CoreInputs == (Pools \X Words \X Words) \cup Scenarios

CoreInit ==
    /\ \E in \in CoreInputs :
          /\ c_dict = in[1]
          /\ c_secret = in[2]
          /\ c_guess = in[3]
    /\ c_fb = <<>>
    /\ c_result = <<>>
    /\ c_pc = "start"
    /\ IdleCtr /\ IdleSess /\ IdleRec

\* let fb = get_feedback(w, guess): the call returns the feedback, or the
\* expect on pop_one aborts the program
CoreFeedback ==
    /\ c_pc = "start"
    /\ c_fb' = get_feedback(c_secret, c_guess)
    /\ c_pc' = IF GetFeedbackRun(c_secret, c_guess).panicked
               THEN "panic" ELSE "fb"
    /\ UNCHANGED <<c_dict, c_secret, c_guess, c_result>>
    /\ UNCHANGED <<ctrVars, sessVars, recVars>>

\* let reduced = reduce_dict(dict, guess, &fb)
CoreReduce ==
    /\ c_pc = "fb"
    /\ c_result' = reduce_dict(c_dict, c_guess, c_fb)
    /\ c_pc' = "done"
    /\ UNCHANGED <<c_dict, c_secret, c_guess, c_fb>>
    /\ UNCHANGED <<ctrVars, sessVars, recVars>>

CoreNext == CoreFeedback \/ CoreReduce

SpecCore == CoreInit /\ [][CoreNext]_vars

---------------------------------------------------------------------------
(* Claims about get_feedback and reduce_dict *)

Count(w, l) == Cardinality({i \in 1..Len(w) : w[i] = l})

\* C1: reduce_dict(pool, g, get_feedback(s, g)) is exactly the words w of pool
\* whose own feedback against g equals that feedback, in pool order.
C1_ExactFilter ==
    c_pc = "done" =>
        c_result = SelectSeq(c_dict, LAMBDA w : get_feedback(w, c_guess) = c_fb)

\* C2: no false negative: a secret that is in the pool is still in
\* reduce_dict(pool, g, get_feedback(secret, g)), for a guess in the pool or not.
C2_NoFalseNegative ==
    (c_pc = "done" /\ c_secret \in Range(c_dict)) => c_secret \in Range(c_result)

\* A secret with a letter the guess repeats: one occurrence marked, one Grey,
\* and a guess that is not the secret
C2_Witness ==
    /\ c_pc = "done"
    /\ c_secret \in Range(c_dict)
    /\ c_secret # c_guess
    /\ \E i, j \in 1..Len(c_guess) :
          /\ c_guess[i] = c_guess[j]
          /\ c_fb[i] = "Grey" /\ c_fb[j] # "Grey"
    /\ c_secret \in Range(c_result)

\* C3: for every letter, the guess positions holding it that are marked Green
\* or Yellow are at most min(count in the secret, count in the guess).
C3_MarksBounded ==
    c_pc # "start" =>
        \A l \in Range(c_guess) \cup Range(c_secret) :
            Cardinality({i \in 1..Len(c_guess) :
                            c_guess[i] = l /\ c_fb[i] \in {"Green", "Yellow"}})
                <= Min(Count(c_secret, l), Count(c_guess, l))

\* The guess holds a letter more often than the secret does, and the bound is met
C3_Witness ==
    /\ c_pc = "fb"
    /\ \E l \in Range(c_guess) :
          /\ Count(c_guess, l) > Count(c_secret, l)
          /\ Count(c_secret, l) > 0
          /\ Cardinality({i \in 1..Len(c_guess) :
                            c_guess[i] = l /\ c_fb[i] \in {"Green", "Yellow"}})
                = Count(c_secret, l)

\* The non-Green positions of the guess holding letter l
NonGreen(l) == {i \in 1..Len(c_guess) : c_guess[i] = l /\ c_secret[i] # l}
\* The shared count of l left after the exact-match pass
SharedLeft(l) ==
    Min(Count(c_secret, l), Count(c_guess, l))
        - Cardinality({i \in 1..Len(c_guess) : c_guess[i] = l /\ c_secret[i] = l})

\* C4: earliest position wins: the Yellow positions of a letter are the first
\* min(k, number of non-Green positions of it) non-Green positions holding it,
\* k its shared count after the exact-match pass; the later ones are Grey, and
\* every exact match stays Green.
C4_EarliestWins ==
    c_pc # "start" =>
        /\ \A i \in 1..Len(c_guess) :
              c_secret[i] = c_guess[i] => c_fb[i] = "Green"
        /\ \A l \in Range(c_guess) :
              \A i \in NonGreen(l) :
                 c_fb[i] = IF Cardinality({j \in NonGreen(l) : j < i}) < SharedLeft(l)
                           THEN "Yellow" ELSE "Grey"

\* A letter with more non-Green positions than shared count left: an earlier
\* position is Yellow and a later one Grey
C4_Witness ==
    /\ c_pc = "fb"
    /\ \E l \in Range(c_guess) : \E i, j \in NonGreen(l) :
          i < j /\ c_fb[i] = "Yellow" /\ c_fb[j] = "Grey"

\* C10 as stated: for secret ERROR and guess ARGOT the R of the guess (its
\* second letter) is marked Yellow.
C10_ErrorArgotYellow ==
    (c_pc # "start" /\ c_secret = ERROR /\ c_guess = ARGOT) => c_fb[2] = "Yellow"

\* C10 amended: for secret ERROR and guess ARGOT the R of the guess stands where
\* the secret has an R too, and is marked Green; the feedback is
\* Grey Green Grey Green Grey.
C10_ErrorArgotGreen ==
    (c_pc # "start" /\ c_secret = ERROR /\ c_guess = ARGOT) =>
        /\ c_fb[2] = "Green"
        /\ c_fb = <<"Grey", "Green", "Grey", "Green", "Grey">>

C10_Witness ==
    c_pc = "fb" /\ c_secret = ERROR /\ c_guess = ARGOT /\ c_fb[2] = "Green"

---------------------------------------------------------------------------
(* The Counter API driven on two counters *)

CtrInit ==
    /\ ctrA = CounterNew
    /\ ctrB = CounterNew
    /\ ctrD = NoDiff
    /\ IdleCore /\ IdleSess /\ IdleRec

\* a.insert(k)
CtrInsertA(k) ==
    /\ Get(ctrA, k) < MaxCount
    /\ ctrA' = Insert(ctrA, k)
    /\ ctrD' = NoDiff
    /\ UNCHANGED <<ctrB, coreVars, sessVars, recVars>>

\* b.insert(k)
CtrInsertB(k) ==
    /\ Get(ctrB, k) < MaxCount
    /\ ctrB' = Insert(ctrB, k)
    /\ ctrD' = NoDiff
    /\ UNCHANGED <<ctrA, coreVars, sessVars, recVars>>

\* a.pop_one(&k), when it returns Ok
CtrPopA(k) ==
    /\ PopOne(ctrA, k).ok
    /\ ctrA' = PopOne(ctrA, k).ctr
    /\ ctrD' = NoDiff
    /\ UNCHANGED <<ctrB, coreVars, sessVars, recVars>>

\* b.pop_one(&k), when it returns Ok
CtrPopB(k) ==
    /\ PopOne(ctrB, k).ok
    /\ ctrB' = PopOne(ctrB, k).ctr
    /\ ctrD' = NoDiff
    /\ UNCHANGED <<ctrA, coreVars, sessVars, recVars>>

\* let d = &a - &b; d.is_empty()
CtrSub ==
    /\ ctrD = NoDiff
    /\ ctrD' = [done |-> TRUE, diff |-> Sub(ctrA, ctrB),
                empty |-> IsEmpty(Sub(ctrA, ctrB))]
    /\ UNCHANGED <<ctrA, ctrB, coreVars, sessVars, recVars>>

CtrNext ==
    \/ \E k \in Letters : CtrInsertA(k)
    \/ \E k \in Letters : CtrInsertB(k)
    \/ \E k \in Letters : CtrPopA(k)
    \/ \E k \in Letters : CtrPopB(k)
    \/ CtrSub

SpecCtr == CtrInit /\ [][CtrNext]_vars

\* C5: (&A - &B).is_empty() is true exactly when every letter's count in A is at
\* most its count in B, also for counters holding a letter with count 0.
C5_SubEmptyIffLeq ==
    ctrD.done =>
        (ctrD.empty <=> \A l \in Letters : Get(ctrA, l) <= Get(ctrB, l))

\* A holds a letter with count 0 and another with the count B has, the
\* difference keeps a key with count 0, and it is reported empty
C5_Witness ==
    /\ ctrD.done
    /\ \E l \in DOMAIN ctrA : ctrA[l] = 0
    /\ \E l \in DOMAIN ctrA : ctrA[l] > 0 /\ l \in DOMAIN ctrB
    /\ \E l \in DOMAIN ctrD.diff : ctrD.diff[l] = 0
    /\ ctrD.empty

---------------------------------------------------------------------------
(* main.rs: run_solve_repl, the solve session *)

\* The N the session passes to filter_top_heur
TopN == 24

\* Words of the enumerated length from three-letter stems
Pad(w) == [i \in 1..WordLen |-> IF i <= Len(w) THEN w[i] ELSE 65]

\* dict/wordle_solutions.txt: its first words
SolWords == <<Pad(<<65, 66, 65>>), Pad(<<65, 66, 67>>), Pad(<<67, 65, 67>>),
              Pad(<<66, 65, 66>>), Pad(<<67, 67, 66>>)>>

\* dict/wordle_complete_dictionary.txt
ExtraWords == <<Pad(<<67, 66, 65>>), Pad(<<66, 66, 67>>)>>

\* str::to_ascii_uppercase on the letter codes
ToAsciiUppercase(t) ==
    [i \in 1..Len(t) |-> IF t[i] >= 97 /\ t[i] <= 122 THEN t[i] - 32 ELSE t[i]]

\* What is typed as a guess: a word of either dictionary, one of them in
\* lower case, a word of neither, a word that is too short, nothing
GuessTexts(dict) ==
    Range(dict)
        \cup {[i \in 1..WordLen |-> dict[1][i] + 32]}
        \cup {[i \in 1..WordLen |-> 66]}
        \cup {[i \in 1..WordLen - 1 |-> 65]}

RECURSIVE StringsOver(_, _)
StringsOver(chars, n) ==
    IF n = 0 THEN {<<>>}
    ELSE {<<ch>> \o t : ch \in chars, t \in StringsOver(chars, n - 1)}

\* What is typed as feedback: every string of - + * of length M, and strings
\* that are too short, too long, or hold another character
FeedbackTexts ==
    StringsOver({"-", "+", "*"}, WordLen)
        \cup {[i \in 1..WordLen - 1 |-> "*"], [i \in 1..WordLen + 1 |-> "-"],
              [i \in 1..WordLen |-> IF i = 1 THEN "x" ELSE "*"],
              [i \in 1..WordLen |-> IF i = WordLen THEN "G" ELSE "-"]}

RECURSIVE ReplayHist_SkipLast(_, _, _)
ReplayHist_SkipLast(alt, hist, i) ==
    IF i >= Len(hist) THEN alt
    ELSE ReplayHist_SkipLast(reduce_dict(alt, hist[i][1], hist[i][2]), hist, i + 1)

RECURSIVE ReplayHist(_, _, _)
\* for (gw, fb) in guess_hist { alt_solutions = reduce_dict(..) } from the
\* i-th pair on
ReplayHist(alt, hist, i) ==
    IF i > Len(hist) THEN alt
    ELSE ReplayHist(reduce_dict(alt, hist[i][1], hist[i][2]), hist, i + 1)

SessInit ==
    /\ \E k \in 1..MaxSol :
          /\ k <= Len(SolWords)
          /\ avail_solutions = SubSeq(SolWords, 1, k)
          /\ full_dict = SubSeq(SolWords, 1, k) \o ExtraWords
    /\ \E t \in GuessTexts(full_dict) \cup {<<>>} :
          init = IF t = <<>> THEN NoInit ELSE [some |-> TRUE, text |-> t]
    /\ guess_hist = <<>>
    /\ line_buf = <<>>
    /\ best_guess = NoRec
    /\ guess = <<>>
    /\ alt_solutions = <<>>
    /\ pc = "start"
    /\ IdleCore /\ IdleCtr /\ IdleRec

\* if let Some(first_guess) = init { .. }: the feedback line is read and
\* decoded, then the guess converted, then the dictionary reduced
FirstGuess(line) ==
    /\ pc = "start"
    /\ init.some
    /\ line_buf' = line
    /\ LET fb == ReadFeedback(line, WordLen)
           first_guess == ToAsciiUppercase(init.text)
       IN  IF ~fb.ok
           THEN /\ pc' = "decode_error"
                /\ UNCHANGED <<avail_solutions, guess_hist>>
           ELSE IF Len(first_guess) # WordLen
           THEN /\ pc' = "guess_error"
                /\ UNCHANGED <<avail_solutions, guess_hist>>
           ELSE /\ avail_solutions' =
                       reduce_dict(avail_solutions, first_guess, fb.fb)
                /\ guess_hist' = Append(guess_hist, <<first_guess, fb.fb>>)
                /\ pc' = "loop"
    /\ UNCHANGED <<full_dict, init, best_guess, guess, alt_solutions>>
    /\ UNCHANGED <<coreVars, ctrVars, recVars>>

\* init is None
NoFirstGuess ==
    /\ pc = "start"
    /\ ~init.some
    /\ pc' = "loop"
    /\ UNCHANGED <<full_dict, init, avail_solutions, guess_hist, line_buf,
                   best_guess, guess, alt_solutions>>
    /\ UNCHANGED <<coreVars, ctrVars, recVars>>

\* The head of the loop body: filter_top_heur, get_best_expect, "Best guess"
Recommend ==
    /\ pc = "loop"
    /\ Len(avail_solutions) > 1
    /\ Len(guess_hist) < MaxRounds
    /\ \E r \in Recommendations(avail_solutions, full_dict, TopN) :
          best_guess' = [done |-> TRUE, word |-> r.word, num |-> r.num,
                         den |-> r.den]
    /\ pc' = "guess"
    /\ UNCHANGED <<full_dict, init, avail_solutions, guess_hist, line_buf,
                   guess, alt_solutions>>
    /\ UNCHANGED <<coreVars, ctrVars, recVars>>

\* "Input guess (leave blank for recommended)"
ReadGuess(line) ==
    /\ pc = "guess"
    /\ line_buf' = line
    /\ IF line = <<>>
       THEN guess' = best_guess.word /\ pc' = "feedback"
       ELSE IF Len(ToAsciiUppercase(line)) # WordLen
       THEN guess' = guess /\ pc' = "guess_error"
       ELSE guess' = ToAsciiUppercase(line) /\ pc' = "feedback"
    /\ UNCHANGED <<full_dict, init, avail_solutions, guess_hist, best_guess,
                   alt_solutions>>
    /\ UNCHANGED <<coreVars, ctrVars, recVars>>

ReadLine_FromFull(line) ==
    /\ pc = "feedback"
    /\ line_buf' = line
    /\ LET fb == ReadFeedback(line, WordLen)
       IN  IF ~fb.ok
           THEN /\ pc' = "decode_error"
                /\ UNCHANGED <<avail_solutions, guess_hist>>
           ELSE /\ avail_solutions' = reduce_dict(full_dict, guess, fb.fb)
                /\ guess_hist' = Append(guess_hist, <<guess, fb.fb>>)
                /\ pc' = "loop"
    /\ UNCHANGED <<full_dict, init, best_guess, guess, alt_solutions>>
    /\ UNCHANGED <<coreVars, ctrVars, recVars>>

\* "Input feedback for ..": read_feedback(..)?, reduce_dict, guess_hist.push
ReadLine(line) ==
    /\ pc = "feedback"
    /\ line_buf' = line
    /\ LET fb == ReadFeedback(line, WordLen)
       IN  IF ~fb.ok
           THEN /\ pc' = "decode_error"
                /\ UNCHANGED <<avail_solutions, guess_hist>>
           ELSE /\ avail_solutions' = reduce_dict(avail_solutions, guess, fb.fb)
                /\ guess_hist' = Append(guess_hist, <<guess, fb.fb>>)
                /\ pc' = "loop"
    /\ UNCHANGED <<full_dict, init, best_guess, guess, alt_solutions>>
    /\ UNCHANGED <<coreVars, ctrVars, recVars>>

\* After the loop: the replay over full_dict and Err("No solutions found!"),
\* or "The solution is .." and Ok
Finish ==
    /\ pc = "loop"
    /\ Len(avail_solutions) <= 1
    /\ IF avail_solutions = <<>>
       THEN /\ alt_solutions' = ReplayHist(full_dict, guess_hist, 1)
            /\ pc' = "no_solutions"
       ELSE /\ alt_solutions' = alt_solutions
            /\ pc' = "solved"
    /\ UNCHANGED <<full_dict, init, avail_solutions, guess_hist, line_buf,
                   best_guess, guess>>
    /\ UNCHANGED <<coreVars, ctrVars, recVars>>

Next ==
    \/ \E line \in FeedbackTexts : FirstGuess(line)
    \/ NoFirstGuess
    \/ Recommend
    \/ \E line \in GuessTexts(full_dict) \cup {<<>>} : ReadGuess(line)
    \/ \E line \in FeedbackTexts : ReadLine(line)
    \/ Finish

Init == SessInit

Spec == Init /\ [][Next]_vars

---------------------------------------------------------------------------
(* Claims about the solve session *)

RECURSIVE IsSubSeq(_, _)
\* a is b with some of its entries left out
IsSubSeq(a, b) ==
    IF a = <<>> THEN TRUE
    ELSE IF b = <<>> THEN FALSE
    ELSE IF Head(a) = Head(b) THEN IsSubSeq(Tail(a), Tail(b))
    ELSE IsSubSeq(a, Tail(b))

\* C6: the candidate pool only shrinks: every step of a session leaves a pool
\* that is the pool before with some words left out (same order, no word more
\* often), so its size never increases; the alternates are such a part of the
\* full dictionary.
C6_PoolShrinks ==
    [][/\ IsSubSeq(avail_solutions', avail_solutions)
       /\ Len(avail_solutions') <= Len(avail_solutions)
       /\ IsSubSeq(alt_solutions', full_dict)]_vars

\* Two rounds, each of which left words out, and a word is still left
C6_Witness ==
    /\ pc = "loop"
    /\ Len(guess_hist) = 2
    /\ Len(avail_solutions) = 1
    /\ Len(reduce_dict(SubSeq(full_dict, 1, Len(full_dict) - Len(ExtraWords)),
                       guess_hist[1][1], guess_hist[1][2])) = 2
    /\ Len(full_dict) - Len(ExtraWords) = 3

RECURSIVE ReplayUpTo(_, _, _)
\* The full dictionary reduced by the first k pairs of the history, in order
ReplayUpTo(full, hist, k) ==
    IF k = 0 THEN full
    ELSE reduce_dict(ReplayUpTo(full, hist, k - 1), hist[k][1], hist[k][2])

\* C7: empty-pool fallback: a pool left empty by a reduction is met at the head
\* of the loop only (no recommendation is asked for it and no error ends the
\* session), the one step from there ends the session in "No solutions
\* found", and the alternates it offers are the full dictionary reduced by
\* every pair of the history in order, the pair that emptied the pool included.
C7_EmptyPoolFallback ==
    [][/\ avail_solutions' = <<>> => pc' \in {"loop", "no_solutions"}
       /\ (avail_solutions = <<>> /\ pc = "loop") =>
             /\ pc' = "no_solutions"
             /\ best_guess' = best_guess
             /\ guess_hist' = guess_hist
       /\ pc' = "no_solutions" =>
             /\ avail_solutions' = <<>>
             /\ guess_hist' # <<>>
             /\ alt_solutions' =
                   ReplayUpTo(full_dict, guess_hist', Len(guess_hist'))]_vars

\* The pool was emptied in a later round, and alternates are offered
C7_Witness ==
    /\ pc = "no_solutions"
    /\ Len(guess_hist) = 2
    /\ alt_solutions # <<>>
    /\ alt_solutions # ReplayUpTo(full_dict, guess_hist, 1)

\* C8: malformed feedback typed in a round of the loop makes read_feedback fail
\* and the session prompt for feedback again, the pool and the history as they
\* were.
C8_RepromptOnBadFeedback ==
    [][(pc = "feedback" /\ ~ReadFeedback(line_buf', WordLen).ok) =>
          /\ pc' = "feedback"
          /\ avail_solutions' = avail_solutions
          /\ guess_hist' = guess_hist]_vars

---------------------------------------------------------------------------
(* The recommendation computed twice on the same inputs *)

RECURSIVE SubSeqsOf(_, _)
\* The subsequences of length n of s, its elements in the order of s
SubSeqsOf(s, n) ==
    IF n = 0 THEN {<<>>}
    ELSE IF Len(s) < n THEN {}
    ELSE SubSeqsOf(Tail(s), n)
            \cup {<<Head(s)>> \o t : t \in SubSeqsOf(Tail(s), n - 1)}

RecInit ==
    /\ \E k \in 1..MaxSol :
          r_dict \in SubSeqsOf(SolWords, k) \cup SubSeqsOf(Reverse(SolWords), k)
    /\ r_pool \in {r_dict \o ExtraWords, ExtraWords}
    /\ r_n \in 1..MaxN
    /\ r_cands = {}
    /\ r_first = NoRec
    /\ r_second = NoRec
    /\ IdleCore /\ IdleCtr /\ IdleSess

\* filter_top_heur(dict, pool, n), then get_best_expect(dict, &filtered)
RecFirst ==
    /\ ~r_first.done
    /\ \E r \in Recommendations(r_dict, r_pool, r_n) :
          r_first' = [done |-> TRUE, word |-> r.word, num |-> r.num,
                      den |-> r.den]
    /\ r_cands' = FilterTopHeur(r_dict, r_pool, r_n)
    /\ UNCHANGED <<r_dict, r_pool, r_n, r_second>>
    /\ UNCHANGED <<coreVars, ctrVars, sessVars>>

\* The same call again on the same inputs
RecSecond ==
    /\ r_first.done
    /\ ~r_second.done
    /\ \E r \in Recommendations(r_dict, r_pool, r_n) :
          r_second' = [done |-> TRUE, word |-> r.word, num |-> r.num,
                       den |-> r.den]
    /\ UNCHANGED <<r_dict, r_pool, r_n, r_cands, r_first>>
    /\ UNCHANGED <<coreVars, ctrVars, sessVars>>

RecNext == RecFirst \/ RecSecond

SpecRec == RecInit /\ [][RecNext]_vars

\* C9: the recommendation is a function of the pool, the extended dictionary
\* and N: two calls on the same inputs return the same (guess, score), also
\* when candidates tie for the minimum.
C9_SameRecommendation ==
    (r_first.done /\ r_second.done) => r_first = r_second

\* The positions of a source that the N highest scores select: those with
\* fewer than n strictly higher scores in the source
TopIdxs(ents, n) ==
    {i \in 1..Len(ents) :
        Cardinality({j \in 1..Len(ents) : ents[j] > ents[i]}) < n}

\* The selections of exactly min(n, size) positions of a source with no
\* dropped position scoring higher than a kept one
ExactTopSets(ents, n) ==
    {K \in SUBSET (1..Len(ents)) :
        /\ Cardinality(K) = Min(n, Len(ents))
        /\ \A i \in K : \A j \in (1..Len(ents)) \ K : ents[j] <= ents[i]}

\* C11 as stated: the filtered set is the union of a selection of exactly
\* min(N, size) top-scoring words of the extended dictionary and one of the
\* solution pool.
C11_ExactlyTopN ==
    r_first.done =>
        \E K1 \in ExactTopSets(TotalEnts(r_dict, r_pool), r_n) :
            \E K2 \in ExactTopSets(TotalEnts(r_dict, r_dict), r_n) :
                r_cands = {r_pool[i] : i \in K1} \cup {r_dict[i] : i \in K2}

\* C11, amended: from each source filter_top_heur keeps every word scoring at
\* least the N-th highest score of that source (the words with fewer than N
\* strictly higher scores), so at least min(N, size) words and more when
\* scores tie at the threshold; no dropped word scores as high as a kept one;
\* when N is at least the size the whole source is kept; the result is the
\* union of the two kept sets.
C11_TopNWithTies ==
    r_first.done =>
        \A ents \in {TotalEnts(r_dict, r_pool)} :
        \A ents_dict \in {TotalEnts(r_dict, r_dict)} :
        \A K1 \in {TopIdxs(ents, r_n)} :
        \A K2 \in {TopIdxs(ents_dict, r_n)} :
            /\ r_cands = {r_pool[i] : i \in K1} \cup {r_dict[i] : i \in K2}
            /\ Cardinality(K1) >= Min(r_n, Len(r_pool))
            /\ Cardinality(K2) >= Min(r_n, Len(r_dict))
            /\ \A i \in K1 : \A j \in (1..Len(r_pool)) \ K1 : ents[j] < ents[i]
            /\ \A i \in K2 : \A j \in (1..Len(r_dict)) \ K2 :
                  ents_dict[j] < ents_dict[i]
            /\ r_n >= Len(r_pool) => Range(r_pool) \subseteq r_cands
            /\ r_n >= Len(r_dict) => Range(r_dict) \subseteq r_cands

\* A source larger than N of which a word is dropped, and a tie at the
\* threshold of the other that keeps more than N of its words
C11_Witness ==
    /\ r_first.done
    /\ r_n < Len(r_pool)
    /\ r_n < Len(r_dict)
    /\ Range(r_pool) \ r_cands # {}
    /\ Cardinality(TopIdxs(TotalEnts(r_dict, r_dict), r_n)) > r_n

---------------------------------------------------------------------------
(* Claims about the panics of get_feedback and the progress of a round *)

\* The exact matches of secret and g that hold the letter l
ExactAt(secret, g, l) ==
    {i \in 1..Len(g) : secret[i] = g[i] /\ g[i] = l}

\* C12: for a secret and a guess of equal length every pop_one of the
\* exact-match pass of get_feedback succeeds: the expect on its result never
\* aborts, and the exact matches of a letter never outnumber its count in the
\* shared multiset, so no count goes below zero.
C12_NoUnderflow ==
    /\ c_pc # "panic"
    /\ c_pc # "idle" =>
          LET common == BitAnd(FromIter(c_secret), FromIter(c_guess))
          IN  \A l \in Range(c_guess) :
                 ExactAt(c_secret, c_guess, l) # {} =>
                    /\ ContainsKey(common, l)
                    /\ Get(common, l) >= Cardinality(ExactAt(c_secret, c_guess, l))

\* get_feedback has returned after popping the same letter twice, the second
\* pop taking its last shared occurrence, and a position left not Green
C12_Witness ==
    /\ c_pc = "fb"
    /\ Len(c_secret) = Len(c_guess)
    /\ \E l \in Range(c_guess) :
          /\ Cardinality(ExactAt(c_secret, c_guess, l)) = 2
          /\ Get(BitAnd(FromIter(c_secret), FromIter(c_guess)), l) = 2
    /\ \E i \in 1..Len(c_guess) : c_fb[i] # "Green"

\* C13: a round whose feedback has a position that is not Green removes the
\* guess from the pool, whatever the feedback typed in: the reduced pool does
\* not hold the guess, and when the guess was in the pool the pool is strictly
\* smaller after the round.
C13_GuessRemoved ==
    [][guess_hist' # guess_hist =>
          LET g == guess_hist'[Len(guess_hist')][1]
              fb == guess_hist'[Len(guess_hist')][2]
          IN  (\E i \in 1..Len(fb) : fb[i] # "Green") =>
                 /\ g \notin Range(avail_solutions')
                 /\ g \in Range(avail_solutions) =>
                       Len(avail_solutions') < Len(avail_solutions)]_vars

\* After the first round: the guess was a solution of the pool, its feedback
\* marks one occurrence of a letter Green and another Grey and nothing Yellow,
\* the guess is gone and the pool is not empty
C13_Witness ==
    /\ pc = "loop"
    /\ Len(guess_hist) = 1
    /\ LET g == guess_hist[1][1]
           fb == guess_hist[1][2]
       IN  /\ g \in Range(full_dict) \ Range(ExtraWords)
           /\ \E i, j \in 1..Len(g) :
                 g[i] = g[j] /\ fb[i] = "Green" /\ fb[j] = "Grey"
           /\ \A i \in 1..Len(fb) : fb[i] # "Yellow"
           /\ g \notin Range(avail_solutions)
           /\ avail_solutions # <<>>

====
